---- MODULE Spec2Model ----
(***************************************************************************)
(* Router-Slaved firmware: the router state machine (RouterController)     *)
(* and the host loop that feeds it (SlaveController::loop).                *)
(*                                                                         *)
(* One host loop iteration is two steps: the serial step (the clock is     *)
(* read, at most one inbound line is read and dispatched) and the router   *)
(* step (RouterController::loop).  Times are milliseconds, unsigned 32-bit.*)
(* Serial output is kept per step: serialTx holds the protocol lines the   *)
(* last step printed (DEBUG lines other than the "ignoring" one are not    *)
(* kept).                                                                  *)
(***************************************************************************)
EXTENDS Integers, Sequences, FiniteSets, TLC

(* ---------------- config.h ---------------- *)
DEFAULT_PUSH_TIME == 3000
DEFAULT_RISER_TIME == 3000
DEFAULT_EJECTION_TIME == 1000
ANALYSIS_TIMEOUT == 5000
CYCLE_DELAY == 1000
SENSOR_DELAY_TIME == 300

(* unsigned long is 32 bits wide.  TLC integers are 32 bits wide and      *)
(* signed, so an unsigned long u is held as the signed integer that has    *)
(* the same 32 bits: u itself below 2^31, and u - 2^32 from 2^31 on.       *)
MaxInt == 2147483647
MinInt == (-MaxInt) - 1

(* ---------------- bounds of the model ---------------- *)
MaxClock == 13000
MaxClockDur == 10000
TickSteps == {0, 1000}
AltPushTime == 1000
AltRiserTime == 1000
AltEjectionTime == 2000
(* the timed scenario: the sensor reads active from 0 until SensorClearAt, *)
(* the verdict line is read at VerdictAt, the clock runs to MaxClockScn    *)
SensorClearAt == 500
VerdictAt == 6500
MaxClockScn == 9000
(* the run across the wrap of the clock: from WrapLead ms before 2^32 to   *)
(* MaxClockWrap ms after it                                                *)
WrapLead == 9000
MaxClockWrap == 4000

PushTimes == {DEFAULT_PUSH_TIME, AltPushTime}
RiserTimes == {DEFAULT_RISER_TIME, AltRiserTime}
EjectionTimes == {DEFAULT_EJECTION_TIME, AltEjectionTime}

(* ---------------- RouterState ---------------- *)
IDLE == "IDLE"
WAITING_FOR_PUSH == "WAITING_FOR_PUSH"
PUSHING == "PUSHING"
RAISING == "RAISING"
WAITING_FOR_ANALYSIS == "WAITING_FOR_ANALYSIS"
EJECTING == "EJECTING"
LOWERING == "LOWERING"
ERROR == "ERROR"
RouterState == {IDLE, WAITING_FOR_PUSH, PUSHING, RAISING, WAITING_FOR_ANALYSIS,
                EJECTING, LOWERING, ERROR}

(* Status of the SlaveController *)
Status == {"IDLE", "BUSY", "ERROR"}

VARIABLES
    router,         \* the RouterController object (record of its fields)
    currentStatus,  \* SlaveController::currentStatus
    clock,          \* millis()
    sensor1,        \* debounced level of sensor 1 during this loop iteration
    input,          \* the line read in this loop iteration (NoLine if none)
    serialTx,       \* protocol lines printed by the last step
    pc,             \* position in SlaveController::loop: "serial" or "router"
    visited,        \* history: states of the current cycle, from its Idle on
    modeChanged,    \* history: analysisMode was changed since the cycle began
    wfaExit,        \* history: how WaitingForAnalysis was left in this cycle, and
                    \*          whether the analysis timeout had elapsed by then
    entryDuration,  \* history: duration in force when the timed state was entered
    enteredAt       \* history: the clock when the current state was entered

vars == <<router, currentStatus, clock, sensor1, input, serialTx, pc,
          visited, modeChanged, wfaExit, entryDuration, enteredAt>>

(* unsigned a + d for a small d >= 0, wrapping at 2^32 *)
Add32(a, d) ==
    IF a >= 0 /\ a > MaxInt - d THEN MinInt + ((a - (MaxInt - d)) - 1) ELSE a + d

(* unsigned a - b, wrapping at 2^32 *)
Sub32(a, b) ==
    IF (a < 0) = (b < 0) THEN a - b
    ELSE IF a >= 0
         THEN IF a <= MaxInt + b THEN a - b
              ELSE ((a - MaxInt) - 1) + ((-(b + 1)) - MaxInt)
         ELSE IF a >= MinInt + b THEN a - b
              ELSE (((a + MaxInt) + 1) + (MaxInt - b)) + 1

(* unsigned a >= b *)
GEu(a, b) == IF (a < 0) = (b < 0) THEN a >= b ELSE a < 0

(* currentTime - stateStartTime, as the guards of updateState compute it *)
Elapsed(now, start) == Sub32(now, start)

(* ---------------- inbound lines ---------------- *)
NoLine == [cmd |-> "NONE"]
(* settings documents: the ones that set analysisMode, and the ones that   *)
(* set durations                                                           *)
ModeDocs == {[analysisMode |-> b] : b \in BOOLEAN}
DurationDocs ==
    {[pushTime |-> v] : v \in PushTimes} \cup
    {[riserTime |-> v] : v \in RiserTimes} \cup
    {[ejectionTime |-> v] : v \in EjectionTimes} \cup
    {[pushTime |-> AltPushTime, riserTime |-> AltRiserTime,
      ejectionTime |-> AltEjectionTime, analysisMode |-> TRUE]}
ResultArgs == {"TRUE", "FALSE"}
StatusLine == [cmd |-> "STATUS"]
AbortLine == [cmd |-> "ABORT_ANALYSIS"]
ResultLine(arg) == [cmd |-> "ANALYSIS_RESULT", arg |-> arg]
SettingsLine(doc) == [cmd |-> "SETTINGS", error |-> FALSE, json |-> doc]
BadSettingsLine == [cmd |-> "SETTINGS", error |-> TRUE]
UnknownLine == [cmd |-> "FOO"]

(* ---------------- outbound lines ---------------- *)
RequestAnalysisStart == [line |-> "SLAVE_REQUEST", arg |-> "ANALYSIS_START"]
RequestNonAnalysis == [line |-> "SLAVE_REQUEST", arg |-> "NON_ANALYSIS_CYCLE"]
WarningRaising == [line |-> "WARNING", arg |-> "Unexpected state: RAISING in non-analysis mode"]
DebugIgnoring == [line |-> "DEBUG", arg |-> "Ignoring analysis result - not in waiting state"]
ErrorLine(msg) == [line |-> "ERROR", arg |-> msg]

(* The operators below work on a context c = [router, currentStatus, tx,   *)
(* sensor]: the two objects, the serial output so far, and the debounced   *)
(* sensor level that isSensor1Active() returns during this iteration.      *)
Ctx(r, st, s) == [router |-> r, currentStatus |-> st, tx |-> <<>>, sensor |-> s]
println(c, l) == [c EXCEPT !.tx = Append(@, l)]
OnOff(b) == IF b THEN "ON" ELSE "OFF"

(* SlaveController::sendState *)
sendState(c) ==
    println(c, [line |-> "STATE",
                status |-> c.currentStatus,
                router_state |-> c.router.currentState,
                push_cylinder |-> OnOff(c.router.pushCylinderState),
                riser_cylinder |-> OnOff(c.router.riserCylinderState),
                ejection_cylinder |-> OnOff(c.router.ejectionCylinderState),
                sensor1 |-> OnOff(c.sensor)])

(* SlaveController::sendError *)
sendError(c, msg) == [println(c, ErrorLine(msg)) EXCEPT !.currentStatus = "ERROR"]

(* RouterController::broadcastState: onStateChange is staticSendState *)
broadcastState(c) == sendState(c)

activatePushCylinder(c) == [c EXCEPT !.router.pushCylinderState = TRUE]

deactivatePushCylinder(c) ==
    broadcastState([c EXCEPT !.router.pushCylinderState = FALSE])

activateRiserCylinder(c) ==
    broadcastState([c EXCEPT !.router.riserCylinderState = TRUE])

deactivateRiserCylinder(c) ==
    broadcastState([c EXCEPT !.router.riserCylinderState = FALSE])

startCycle(c, now) ==
    broadcastState([c EXCEPT !.router.cycleStartTime = now,
                             !.router.stateStartTime = now,
                             !.router.currentState = WAITING_FOR_PUSH])

startAnalysis(c, now) ==
    println([c EXCEPT !.router.stateStartTime = now,
                      !.router.currentState = WAITING_FOR_ANALYSIS,
                      !.router.analysisComplete = FALSE],
            RequestAnalysisStart)

(* variant: the riser is switched OFF when the ejection starts *)
startEjection_RiserOff(c, now) ==
    broadcastState([c EXCEPT !.router.ejectionCylinderState = TRUE,
                             !.router.riserCylinderState = FALSE,
                             !.router.stateStartTime = now,
                             !.router.currentState = EJECTING])

startEjection(c, now) ==
    broadcastState([c EXCEPT !.router.ejectionCylinderState = TRUE,
                             !.router.stateStartTime = now,
                             !.router.currentState = EJECTING])

(* variant: stateStartTime is not written *)
lowerAndWait_NoStamp(c, now) ==
    [deactivateRiserCylinder(c) EXCEPT !.router.currentState = LOWERING]

(* variant: the riser is left as it is *)
lowerAndWait_RiserKept(c, now) ==
    [c EXCEPT !.router.stateStartTime = now, !.router.currentState = LOWERING]

lowerAndWait(c, now) ==
    [deactivateRiserCylinder(c) EXCEPT !.router.stateStartTime = now,
                                       !.router.currentState = LOWERING]

(* variant: giving up the wait acts on the verdict stored last *)
abortAnalysis_StoredVerdict(c, now) ==
    IF c.router.currentState # WAITING_FOR_ANALYSIS THEN c
    ELSE IF c.router.shouldEject THEN startEjection(c, now)
    ELSE lowerAndWait(c, now)

abortAnalysis(c, now) ==
    IF c.router.currentState # WAITING_FOR_ANALYSIS THEN c
    ELSE lowerAndWait(c, now)

(* variant: the abort command lowers whatever the state *)
abortCurrentAnalysis_Unguarded(c, now) == lowerAndWait(c, now)

abortCurrentAnalysis(c, now) ==
    IF c.router.currentState = WAITING_FOR_ANALYSIS THEN abortAnalysis(c, now)
    ELSE c

(* variant: the verdict is applied whatever the state *)
handleAnalysisResult_NoGuard(c, eject, now) ==
    LET c1 == [c EXCEPT !.router.analysisComplete = TRUE,
                        !.router.shouldEject = eject]
        c2 == IF eject THEN startEjection(c1, now) ELSE lowerAndWait(c1, now)
    IN  broadcastState(c2)

(* variant: a verdict that arrives after the timeout has elapsed is        *)
(* treated as a timeout                                                    *)
handleAnalysisResult_TimeoutFirst(c, eject, now) ==
    IF c.router.currentState # WAITING_FOR_ANALYSIS THEN println(c, DebugIgnoring)
    ELSE IF GEu(Elapsed(now, c.router.stateStartTime), ANALYSIS_TIMEOUT)
    THEN abortAnalysis(c, now)
    ELSE LET c1 == [c EXCEPT !.router.analysisComplete = TRUE,
                             !.router.shouldEject = eject]
             c2 == IF eject THEN startEjection(c1, now) ELSE lowerAndWait(c1, now)
         IN  broadcastState(c2)

handleAnalysisResult(c, eject, now) ==
    IF c.router.currentState # WAITING_FOR_ANALYSIS THEN println(c, DebugIgnoring)
    ELSE LET c1 == [c EXCEPT !.router.analysisComplete = TRUE,
                             !.router.shouldEject = eject]
             c2 == IF eject THEN startEjection(c1, now) ELSE lowerAndWait(c1, now)
         IN  broadcastState(c2)

(* RouterController::updateState, one operator per case of the switch;     *)
(* currentTime is read once, at the top of updateState.                    *)
(* variant: the push starts only after more than SENSOR_DELAY_TIME *)
case_WAITING_FOR_PUSH_Strict(c, currentTime) ==
    IF ~GEu(SENSOR_DELAY_TIME, Elapsed(currentTime, c.router.stateStartTime))
    THEN broadcastState(
             [activatePushCylinder([c EXCEPT !.router.currentState = PUSHING])
                 EXCEPT !.router.stateStartTime = currentTime])
    ELSE c

case_WAITING_FOR_PUSH(c, currentTime) ==
    IF GEu(Elapsed(currentTime, c.router.stateStartTime), SENSOR_DELAY_TIME)
    THEN broadcastState(
             [activatePushCylinder([c EXCEPT !.router.currentState = PUSHING])
                 EXCEPT !.router.stateStartTime = currentTime])
    ELSE c

(* variant: the push always ends in Raising, whatever analysisMode is *)
case_PUSHING_AlwaysRaise(c, currentTime) ==
    IF ~c.sensor /\ GEu(Elapsed(currentTime, c.router.stateStartTime), c.router.pushTime)
    THEN LET c1 == deactivatePushCylinder(c)
             c2 == activateRiserCylinder([c1 EXCEPT !.router.currentState = RAISING])
         IN  broadcastState([c2 EXCEPT !.router.stateStartTime = currentTime])
    ELSE c

(* variant: the push ends on the timer alone *)
case_PUSHING_TimerOnly(c, currentTime) ==
    IF GEu(Elapsed(currentTime, c.router.stateStartTime), c.router.pushTime)
    THEN LET c1 == deactivatePushCylinder(c)
             c2 == IF c.router.analysisMode
                   THEN activateRiserCylinder([c1 EXCEPT !.router.currentState = RAISING])
                   ELSE [println(c1, RequestNonAnalysis)
                            EXCEPT !.router.currentState = LOWERING]
         IN  broadcastState([c2 EXCEPT !.router.stateStartTime = currentTime])
    ELSE c

case_PUSHING(c, currentTime) ==
    IF ~c.sensor /\ GEu(Elapsed(currentTime, c.router.stateStartTime), c.router.pushTime)
    THEN LET c1 == deactivatePushCylinder(c)
             c2 == IF c.router.analysisMode
                   THEN activateRiserCylinder([c1 EXCEPT !.router.currentState = RAISING])
                   ELSE [println(c1, RequestNonAnalysis)
                            EXCEPT !.router.currentState = LOWERING]
         IN  broadcastState([c2 EXCEPT !.router.stateStartTime = currentTime])
    ELSE c

(* variant: the rise is timed against the default, not the setting *)
case_RAISING_DefaultTime(c, currentTime) ==
    IF GEu(Elapsed(currentTime, c.router.stateStartTime), DEFAULT_RISER_TIME)
    THEN broadcastState(
             IF c.router.analysisMode THEN startAnalysis(c, currentTime)
             ELSE lowerAndWait(println(c, WarningRaising), currentTime))
    ELSE c

case_RAISING(c, currentTime) ==
    IF GEu(Elapsed(currentTime, c.router.stateStartTime), c.router.riserTime)
    THEN broadcastState(
             IF c.router.analysisMode THEN startAnalysis(c, currentTime)
             ELSE lowerAndWait(println(c, WarningRaising), currentTime))
    ELSE c

(* variant: the timeout is a deadline, stateStartTime + ANALYSIS_TIMEOUT,   *)
(* that the clock is compared with                                         *)
case_WAITING_FOR_ANALYSIS_Deadline(c, currentTime) ==
    IF GEu(currentTime, Add32(c.router.stateStartTime, ANALYSIS_TIMEOUT))
    THEN abortAnalysis(c, currentTime)
    ELSE c

(* variant: the wait has no timeout *)
case_WAITING_FOR_ANALYSIS_NoTimeout(c, currentTime) == c

(* variant: the request is printed again on every tick spent waiting *)
case_WAITING_FOR_ANALYSIS_Resend(c, currentTime) ==
    IF GEu(Elapsed(currentTime, c.router.stateStartTime), ANALYSIS_TIMEOUT)
    THEN abortAnalysis(c, currentTime)
    ELSE println(c, RequestAnalysisStart)

(* variant: the timeout fires only after more than ANALYSIS_TIMEOUT *)
case_WAITING_FOR_ANALYSIS_Late(c, currentTime) ==
    IF ~GEu(ANALYSIS_TIMEOUT, Elapsed(currentTime, c.router.stateStartTime))
    THEN abortAnalysis(c, currentTime)
    ELSE c

case_WAITING_FOR_ANALYSIS(c, currentTime) ==
    IF GEu(Elapsed(currentTime, c.router.stateStartTime), ANALYSIS_TIMEOUT)
    THEN abortAnalysis(c, currentTime)
    ELSE c

(* variant: the ejection ends straight in Idle *)
case_EJECTING_ToIdle(c, currentTime) ==
    IF GEu(Elapsed(currentTime, c.router.stateStartTime), c.router.ejectionTime)
    THEN broadcastState(
             [lowerAndWait([c EXCEPT !.router.ejectionCylinderState = FALSE], currentTime)
                 EXCEPT !.router.currentState = IDLE])
    ELSE c

case_EJECTING(c, currentTime) ==
    IF GEu(Elapsed(currentTime, c.router.stateStartTime), c.router.ejectionTime)
    THEN broadcastState(
             lowerAndWait([c EXCEPT !.router.ejectionCylinderState = FALSE], currentTime))
    ELSE c

case_LOWERING(c, currentTime) ==
    IF GEu(Elapsed(currentTime, c.router.stateStartTime), CYCLE_DELAY)
    THEN broadcastState([c EXCEPT !.router.currentState = IDLE])
    ELSE c

(* variant: the Error state recovers to Idle at the next tick *)
updateState_ErrorRecovers(c, currentTime) ==
    CASE c.router.currentState = WAITING_FOR_PUSH -> case_WAITING_FOR_PUSH(c, currentTime)
      [] c.router.currentState = PUSHING -> case_PUSHING(c, currentTime)
      [] c.router.currentState = RAISING -> case_RAISING(c, currentTime)
      [] c.router.currentState = WAITING_FOR_ANALYSIS ->
             case_WAITING_FOR_ANALYSIS(c, currentTime)
      [] c.router.currentState = EJECTING -> case_EJECTING(c, currentTime)
      [] c.router.currentState = LOWERING -> case_LOWERING(c, currentTime)
      [] c.router.currentState = ERROR ->
             broadcastState([c EXCEPT !.router.currentState = IDLE])
      [] OTHER -> c

updateState(c, currentTime) ==
    CASE c.router.currentState = WAITING_FOR_PUSH -> case_WAITING_FOR_PUSH(c, currentTime)
      [] c.router.currentState = PUSHING -> case_PUSHING(c, currentTime)
      [] c.router.currentState = RAISING -> case_RAISING(c, currentTime)
      [] c.router.currentState = WAITING_FOR_ANALYSIS ->
             case_WAITING_FOR_ANALYSIS(c, currentTime)
      [] c.router.currentState = EJECTING -> case_EJECTING(c, currentTime)
      [] c.router.currentState = LOWERING -> case_LOWERING(c, currentTime)
      [] OTHER -> c

(* variant: a cycle is started in Idle without looking at the sensor *)
routerLoop_NoSensorCheck(c, now) ==
    LET c1 == IF c.sensor # c.router.lastSensor1State
              THEN broadcastState([c EXCEPT !.router.lastSensor1State = c.sensor])
              ELSE c
    IN  IF c1.router.currentState = IDLE
        THEN startCycle(c1, now)
        ELSE updateState(c1, now)

(* variant: a rising edge of the sensor starts a cycle in any state *)
routerLoop_RestartOnEdge(c, now) ==
    LET edge == c.sensor # c.router.lastSensor1State
        c1 == IF edge
              THEN broadcastState([c EXCEPT !.router.lastSensor1State = c.sensor])
              ELSE c
    IN  IF c1.sensor /\ (c1.router.currentState = IDLE \/ edge)
        THEN startCycle(c1, now)
        ELSE updateState(c1, now)

(* RouterController::loop *)
routerLoop(c, now) ==
    LET c1 == IF c.sensor # c.router.lastSensor1State
              THEN broadcastState([c EXCEPT !.router.lastSensor1State = c.sensor])
              ELSE c
    IN  IF c1.router.currentState = IDLE /\ c1.sensor
        THEN startCycle(c1, now)
        ELSE updateState(c1, now)

(* SlaveController::updateSettings *)
updateSettings(c, json) ==
    LET has(k) == k \in DOMAIN json
        c1 == IF has("pushTime") THEN [c EXCEPT !.router.pushTime = json.pushTime] ELSE c
        c2 == IF has("riserTime") THEN [c1 EXCEPT !.router.riserTime = json.riserTime] ELSE c1
        c3 == IF has("ejectionTime")
              THEN [c2 EXCEPT !.router.ejectionTime = json.ejectionTime] ELSE c2
    IN  IF has("analysisMode")
        THEN [c3 EXCEPT !.router.analysisMode = json.analysisMode] ELSE c3

(* SlaveController::processCommand *)
processCommand(c, command, now) ==
    CASE command.cmd = "STATUS" -> sendState(c)
      [] command.cmd = "ABORT_ANALYSIS" -> abortCurrentAnalysis(c, now)
      [] command.cmd = "ANALYSIS_RESULT" ->
           handleAnalysisResult(c, command.arg = "TRUE", now)
      [] OTHER -> sendError(c, "Unknown command")

(* the serial part of SlaveController::loop, lines 107-123 *)
serialInput(c, line, now) ==
    IF line.cmd = "SETTINGS"
    THEN IF line.error THEN sendError(c, "Failed to parse settings")
         ELSE updateSettings(c, line.json)
    ELSE processCommand(c, line, now)

(* RouterController::RouterController.  lastSensor1ChangeTime, cycleCount  *)
(* and lastCycleTime are written by no statement; they are not carried.    *)
RouterInit ==
    [currentState |-> IDLE, cycleStartTime |-> 0, stateStartTime |-> 0,
     pushTime |-> DEFAULT_PUSH_TIME, riserTime |-> DEFAULT_RISER_TIME,
     ejectionTime |-> DEFAULT_EJECTION_TIME, analysisMode |-> TRUE,
     analysisComplete |-> FALSE, shouldEject |-> FALSE,
     pushCylinderState |-> FALSE, riserCylinderState |-> FALSE,
     ejectionCylinderState |-> FALSE, lastSensor1State |-> FALSE]

(* ---------------- history variables ---------------- *)
NextVisited(r, r2) ==
    IF r2.currentState = r.currentState THEN visited
    ELSE IF r.currentState = IDLE THEN <<IDLE, r2.currentState>>
    ELSE Append(visited, r2.currentState)

NextModeChanged(r, r2) ==
    IF r.currentState = IDLE /\ r2.currentState # IDLE THEN FALSE
    ELSE modeChanged \/ r2.analysisMode # r.analysisMode

NoExit == [how |-> "none", expired |-> FALSE]

NextWfaExit(r, r2, how, now) ==
    IF r.currentState = IDLE /\ r2.currentState # IDLE THEN NoExit
    ELSE IF r.currentState = WAITING_FOR_ANALYSIS /\ r2.currentState # r.currentState
    THEN [how |-> how, expired |-> now >= r.stateStartTime + ANALYSIS_TIMEOUT]
    ELSE wfaExit

NextEntryDuration(r, r2) ==
    IF r2.currentState = r.currentState THEN entryDuration
    ELSE CASE r2.currentState = PUSHING -> r2.pushTime
           [] r2.currentState = RAISING -> r2.riserTime
           [] r2.currentState = EJECTING -> r2.ejectionTime
           [] OTHER -> 0

NextEnteredAt(r, r2, now) ==
    IF r2.currentState = r.currentState THEN enteredAt ELSE now

History(r2, how, now) ==
    /\ enteredAt' = NextEnteredAt(router, r2, now)
    /\ visited' = NextVisited(router, r2)
    /\ modeChanged' = NextModeChanged(router, r2)
    /\ wfaExit' = NextWfaExit(router, r2, how, now)
    /\ entryDuration' = NextEntryDuration(router, r2)

(* ---------------- the state machine ---------------- *)
Init ==
    /\ router = RouterInit
    /\ currentStatus = "IDLE"
    /\ clock = 0
    /\ sensor1 = FALSE
    /\ input = NoLine
    /\ serialTx = <<>>
    /\ pc = "serial"
    /\ visited = <<IDLE>>
    /\ modeChanged = FALSE
    /\ wfaExit = NoExit
    /\ entryDuration = 0
    /\ enteredAt = 0

(* Top of SlaveController::loop: millis() is read (d ms after the previous *)
(* iteration), the debouncer has level s, and `line` is what Serial holds  *)
(* (NoLine when Serial.available() is 0).  `how` only feeds the history.   *)
LoopTop(d, s, line, how, bound) ==
    /\ Add32(clock, d) <= bound
    /\ clock' = Add32(clock, d)
    /\ sensor1' = s
    /\ input' = line
    /\ LET c == IF line = NoLine THEN Ctx(router, currentStatus, s)
                ELSE serialInput(Ctx(router, currentStatus, s), line, clock')
       IN  /\ router' = c.router
           /\ currentStatus' = c.currentStatus
           /\ serialTx' = c.tx
           /\ History(c.router, how, clock')
    /\ pc' = "router"

SerialStep(d, s, line, how) == LoopTop(d, s, line, how, MaxClock)

Verdict(a) == IF a = "TRUE" THEN "eject" ELSE "pass"

NoInput ==
    /\ pc = "serial"
    /\ \E d \in TickSteps, s \in BOOLEAN : SerialStep(d, s, NoLine, "none")

CmdStatus ==
    /\ pc = "serial"
    /\ \E d \in TickSteps, s \in BOOLEAN : SerialStep(d, s, StatusLine, "none")

CmdAbortAnalysis ==
    /\ pc = "serial"
    /\ \E d \in TickSteps, s \in BOOLEAN : SerialStep(d, s, AbortLine, "abort")

CmdAnalysisResult ==
    /\ pc = "serial"
    /\ \E d \in TickSteps, s \in BOOLEAN, a \in ResultArgs :
           SerialStep(d, s, ResultLine(a), Verdict(a))

CmdSettings ==
    /\ pc = "serial"
    /\ \E d \in TickSteps, s \in BOOLEAN, doc \in ModeDocs :
           SerialStep(d, s, SettingsLine(doc), "none")

CmdBadSettings ==
    /\ pc = "serial"
    /\ \E d \in TickSteps, s \in BOOLEAN : SerialStep(d, s, BadSettingsLine, "none")

CmdUnknown ==
    /\ pc = "serial"
    /\ \E d \in TickSteps, s \in BOOLEAN : SerialStep(d, s, UnknownLine, "none")

(* router.loop(), the last statement of SlaveController::loop *)
RouterLoop ==
    /\ pc = "router"
    /\ LET c == routerLoop(Ctx(router, currentStatus, sensor1), clock)
       IN  /\ router' = c.router
           /\ currentStatus' = c.currentStatus
           /\ serialTx' = c.tx
           /\ History(c.router, "timeout", clock)
    /\ input' = NoLine
    /\ pc' = "serial"
    /\ UNCHANGED <<clock, sensor1>>

Next ==
    \/ NoInput
    \/ CmdStatus
    \/ CmdAbortAnalysis
    \/ CmdAnalysisResult
    \/ CmdSettings
    \/ CmdBadSettings
    \/ CmdUnknown
    \/ RouterLoop

Spec == Init /\ [][Next]_vars

(* The same loop with a host that also changes the durations at run time   *)
(* (and sends no malformed line).                                          *)
DurStep(d, s, line, how) == LoopTop(d, s, line, how, MaxClockDur)

DurNoInput ==
    /\ pc = "serial"
    /\ \E d \in TickSteps, s \in BOOLEAN : DurStep(d, s, NoLine, "none")

DurAnalysisResult ==
    /\ pc = "serial"
    /\ \E d \in TickSteps, s \in BOOLEAN, a \in ResultArgs :
           DurStep(d, s, ResultLine(a), Verdict(a))

DurSettings ==
    /\ pc = "serial"
    /\ \E d \in TickSteps, s \in BOOLEAN, doc \in DurationDocs :
           DurStep(d, s, SettingsLine(doc), "none")

NextDur ==
    \/ DurNoInput
    \/ DurAnalysisResult
    \/ DurSettings
    \/ RouterLoop

SpecDur == Init /\ [][NextDur]_vars

(* The same loop with a host that sends verdicts and aborts and switches   *)
(* between two configurations: analysisMode off, and analysisMode on with  *)
(* the three durations changed.                                            *)
HostDocs ==
    {[analysisMode |-> FALSE],
     [pushTime |-> AltPushTime, riserTime |-> AltRiserTime,
      ejectionTime |-> AltEjectionTime, analysisMode |-> TRUE]}

HostStep(d, s, line, how) == LoopTop(d, s, line, how, MaxClockDur)

HostNoInput ==
    /\ pc = "serial"
    /\ \E d \in TickSteps, s \in BOOLEAN : HostStep(d, s, NoLine, "none")

HostAnalysisResult ==
    /\ pc = "serial"
    /\ \E d \in TickSteps, s \in BOOLEAN, a \in ResultArgs :
           HostStep(d, s, ResultLine(a), Verdict(a))

HostAbortAnalysis ==
    /\ pc = "serial"
    /\ \E d \in TickSteps, s \in BOOLEAN : HostStep(d, s, AbortLine, "abort")

HostSettings ==
    /\ pc = "serial"
    /\ \E d \in TickSteps, s \in BOOLEAN, doc \in HostDocs :
           HostStep(d, s, SettingsLine(doc), "none")

NextHost ==
    \/ HostNoInput
    \/ HostAnalysisResult
    \/ HostAbortAnalysis
    \/ HostSettings
    \/ RouterLoop

SpecHost == Init /\ [][NextHost]_vars

(* One run of the loop at one iteration per millisecond, first iteration   *)
(* at clock 0: the sensor reads active until SensorClearAt, the host sends *)
(* ANALYSIS_RESULT TRUE so that it is read at VerdictAt and sends nothing  *)
(* else; durations and analysisMode are the constructor's.                 *)
ScnSensor(t) == t < SensorClearAt

ScnStart ==
    /\ pc = "serial"
    /\ visited = <<IDLE>>
    /\ LoopTop(0, ScnSensor(0), NoLine, "none", MaxClockScn)

ScnTick ==
    /\ pc = "serial"
    /\ visited # <<IDLE>>
    /\ clock + 1 # VerdictAt
    /\ LoopTop(1, ScnSensor(clock + 1), NoLine, "none", MaxClockScn)

ScnVerdict ==
    /\ pc = "serial"
    /\ visited # <<IDLE>>
    /\ clock + 1 = VerdictAt
    /\ LoopTop(1, ScnSensor(clock + 1), ResultLine("TRUE"), "eject", MaxClockScn)

NextScn ==
    \/ ScnStart
    \/ ScnTick
    \/ ScnVerdict
    \/ RouterLoop

SpecScn == Init /\ [][NextScn]_vars

(* The loop started either as constructed or with the router placed in    *)
(* ERROR (no statement of the program assigns RouterState::ERROR; the      *)
(* outputs it would be placed there with are not known, so all are taken). *)
RouterInError ==
    {[RouterInit EXCEPT !.currentState = ERROR,
                        !.pushCylinderState = p,
                        !.riserCylinderState = r,
                        !.ejectionCylinderState = e] : p, r, e \in BOOLEAN}

InitErr ==
    /\ router \in {RouterInit} \cup RouterInError
    /\ currentStatus = "IDLE"
    /\ clock = 0
    /\ sensor1 = FALSE
    /\ input = NoLine
    /\ serialTx = <<>>
    /\ pc = "serial"
    /\ visited = <<router.currentState>>
    /\ modeChanged = FALSE
    /\ wfaExit = NoExit
    /\ entryDuration = 0
    /\ enteredAt = 0

SpecErr == InitErr /\ [][NextHost]_vars

(* The loop running for ever: the clock wraps at 2^32 and is read either   *)
(* unchanged or a quarter of its range later; the host sends verdicts or   *)
(* nothing.  loop() is called again and again (weak fairness of the router *)
(* step, which is the only step possible once the serial part is done) and *)
(* the clock keeps advancing (strong fairness of the serial steps that     *)
(* read a later clock).  Nothing is assumed of the sensor or of the host.  *)
QuarterRange == ((MaxInt - 1) \div 2) + 1
LiveSteps == {0, QuarterRange}

LiveStep(d, s, line, how) == LoopTop(d, s, line, how, MaxInt)

LiveNoInput ==
    /\ pc = "serial"
    /\ \E d \in LiveSteps, s \in BOOLEAN : LiveStep(d, s, NoLine, "none")

LiveAnalysisResult ==
    /\ pc = "serial"
    /\ \E d \in LiveSteps, s \in BOOLEAN, a \in ResultArgs :
           LiveStep(d, s, ResultLine(a), Verdict(a))

NextLive ==
    \/ LiveNoInput
    \/ LiveAnalysisResult
    \/ RouterLoop

ClockAdvances ==
    /\ NextLive
    /\ pc = "serial"
    /\ clock' # clock

SpecLive ==
    /\ Init
    /\ [][NextLive]_vars
    /\ WF_vars(RouterLoop)
    /\ SF_vars(ClockAdvances)

(* The loop around the wrap of millis(): the program has been idle since   *)
(* boot and the clock reads 2^32 - WrapLead (held as -WrapLead, so that    *)
(* the difference of two clock values of the run is the time between them  *)
(* and the clock passes from -1 to 0 where millis() passes from 2^32 - 1   *)
(* to 0).  The host sends verdicts and aborts; the settings are the        *)
(* constructor's.                                                          *)
InitWrap ==
    /\ router = RouterInit
    /\ currentStatus = "IDLE"
    /\ clock = -WrapLead
    /\ sensor1 = FALSE
    /\ input = NoLine
    /\ serialTx = <<>>
    /\ pc = "serial"
    /\ visited = <<IDLE>>
    /\ modeChanged = FALSE
    /\ wfaExit = NoExit
    /\ entryDuration = 0
    /\ enteredAt = 0

WrapStep(d, s, line, how) == LoopTop(d, s, line, how, MaxClockWrap)

WrapNoInput ==
    /\ pc = "serial"
    /\ \E d \in TickSteps, s \in BOOLEAN : WrapStep(d, s, NoLine, "none")

WrapAnalysisResult ==
    /\ pc = "serial"
    /\ \E d \in TickSteps, s \in BOOLEAN, a \in ResultArgs :
           WrapStep(d, s, ResultLine(a), Verdict(a))

WrapAbortAnalysis ==
    /\ pc = "serial"
    /\ \E d \in TickSteps, s \in BOOLEAN : WrapStep(d, s, AbortLine, "abort")

NextWrap ==
    \/ WrapNoInput
    \/ WrapAnalysisResult
    \/ WrapAbortAnalysis
    \/ RouterLoop

SpecWrap == InitWrap /\ [][NextWrap]_vars

TypeOK ==
    /\ router.currentState \in RouterState
    /\ router.stateStartTime \in MinInt..MaxInt
    /\ clock \in MinInt..MaxInt
    /\ currentStatus \in Status
    /\ pc \in {"serial", "router"}

(* ---------------- vocabulary of the properties ---------------- *)
state == router.currentState
Outputs(r) == <<r.pushCylinderState, r.riserCylinderState, r.ejectionCylinderState>>
AllOff == <<FALSE, FALSE, FALSE>>
Frame(r) == <<r.currentState, r.stateStartTime, Outputs(r)>>
Count(x, seq) == Cardinality({i \in DOMAIN seq : seq[i] = x})
IsPrefix(p, q) == Len(p) <= Len(q) /\ \A i \in DOMAIN p : p[i] = q[i]
StateLines(seq) == {i \in DOMAIN seq : seq[i].line = "STATE"}

(* the serial step of this iteration read an ANALYSIS_RESULT / ABORT line *)
ReadsResult == pc = "serial" /\ input'.cmd = "ANALYSIS_RESULT"
ReadsAbort == pc = "serial" /\ input'.cmd = "ABORT_ANALYSIS"
RouterTick == pc = "router" /\ pc' = "serial"

(* C1: a verdict that arrives in a state other than WaitingForAnalysis     *)
(* changes no field of the router (state, stateStartTime, the three        *)
(* outputs, and the stored outcome analysisComplete / shouldEject: nothing *)
(* is queued) and is reported as ignored; and Ejecting is entered from     *)
(* WaitingForAnalysis only by a step that reads ANALYSIS_RESULT TRUE at    *)
(* that moment, never by an earlier verdict taking effect later.           *)
C1_VerdictIgnoredOutsideWaiting ==
    [][ /\ (ReadsResult /\ state # WAITING_FOR_ANALYSIS)
            => (router' = router /\ serialTx' = <<DebugIgnoring>>)
        /\ (state # EJECTING /\ state' = EJECTING)
            => (ReadsResult /\ input'.arg = "TRUE" /\ state = WAITING_FOR_ANALYSIS)
        /\ (state # WAITING_FOR_ANALYSIS /\ state' = WAITING_FOR_ANALYSIS)
            => (RouterTick /\ ~router'.analysisComplete)
      ]_vars

C1_Witness ==
    /\ pc = "router"
    /\ input = ResultLine("TRUE")
    /\ state = RAISING
    /\ serialTx = <<DebugIgnoring>>
    /\ ~router.shouldEject

(* C2: in an iteration that reads a verdict while the state is             *)
(* WaitingForAnalysis and the timeout has already elapsed at the clock     *)
(* read of that iteration, the verdict decides: Ejecting for TRUE,         *)
(* Lowering for anything else, and the router step that closes the         *)
(* iteration leaves that state as it is (the timeout branch is not taken). *)
C2_VerdictBeforeTimeout ==
    [][ /\ (ReadsResult /\ state = WAITING_FOR_ANALYSIS
                /\ clock' >= router.stateStartTime + ANALYSIS_TIMEOUT)
            => /\ state' = IF input'.arg = "TRUE" THEN EJECTING ELSE LOWERING
               /\ wfaExit' = [how |-> Verdict(input'.arg), expired |-> TRUE]
               /\ router'.ejectionCylinderState = (input'.arg = "TRUE")
        /\ (RouterTick /\ input.cmd = "ANALYSIS_RESULT" /\ serialTx # <<DebugIgnoring>>)
            => /\ state \in {EJECTING, LOWERING}
               /\ state' = state
               /\ wfaExit' = wfaExit
      ]_vars

C2_Witness ==
    /\ pc = "serial"
    /\ state = EJECTING
    /\ wfaExit = [how |-> "eject", expired |-> TRUE]
    /\ router.stateStartTime = clock

(* C3: WaitingForAnalysis is entered with stateStartTime = the clock; no   *)
(* line other than a verdict or an abort disturbs the wait; the router     *)
(* tick leaves the state exactly when clock >= stateStartTime +            *)
(* ANALYSIS_TIMEOUT, and then to Lowering with the riser OFF; a cycle in   *)
(* which the wait ended by timeout never visits Ejecting.                  *)
C3_TimeoutLowers ==
    [][ /\ (state # WAITING_FOR_ANALYSIS /\ state' = WAITING_FOR_ANALYSIS)
            => router'.stateStartTime = clock'
        /\ (pc = "serial" /\ state = WAITING_FOR_ANALYSIS
                /\ input'.cmd \notin {"ANALYSIS_RESULT", "ABORT_ANALYSIS"})
            => (state' = state /\ router'.stateStartTime = router.stateStartTime)
        /\ (RouterTick /\ state = WAITING_FOR_ANALYSIS)
            => IF clock >= router.stateStartTime + ANALYSIS_TIMEOUT
               THEN /\ state' = LOWERING
                    /\ Outputs(router') = AllOff
                    /\ router'.stateStartTime = clock
                    /\ wfaExit'.how = "timeout"
               ELSE Frame(router') = Frame(router)
        /\ (wfaExit'.how = "timeout") => Count(EJECTING, visited') = 0
      ]_vars

C3_Witness ==
    /\ state = IDLE
    /\ wfaExit = [how |-> "timeout", expired |-> TRUE]
    /\ visited = <<IDLE, WAITING_FOR_PUSH, PUSHING, RAISING, WAITING_FOR_ANALYSIS,
                   LOWERING, IDLE>>

(* ---------------- cycles ---------------- *)
AnalysisEjectCycle ==
    <<IDLE, WAITING_FOR_PUSH, PUSHING, RAISING, WAITING_FOR_ANALYSIS, EJECTING,
      LOWERING, IDLE>>
AnalysisPassCycle ==
    <<IDLE, WAITING_FOR_PUSH, PUSHING, RAISING, WAITING_FOR_ANALYSIS, LOWERING, IDLE>>
NonAnalysisCycle == <<IDLE, WAITING_FOR_PUSH, PUSHING, LOWERING, IDLE>>
LastVisited == visited[Len(visited)]

(* C4: while analysisMode has been true since the cycle began, the states  *)
(* visited since its Idle are a prefix of Idle, WaitingForPush, Pushing,   *)
(* Raising, WaitingForAnalysis, [Ejecting,] Lowering, Idle: with Ejecting  *)
(* exactly when the wait was ended by a verdict TRUE, without it when it   *)
(* was ended by any other verdict; so a completed cycle is exactly that    *)
(* sequence.                                                               *)
C4_AnalysisCycleOrder ==
    (~modeChanged /\ router.analysisMode) =>
        /\ state = LastVisited
        /\ CASE wfaExit.how = "eject" ->
                   IsPrefix(visited, AnalysisEjectCycle) /\ Len(visited) >= 6
             [] wfaExit.how = "pass" ->
                   IsPrefix(visited, AnalysisPassCycle) /\ Len(visited) >= 6
             [] wfaExit.how = "none" ->
                   IsPrefix(visited, AnalysisPassCycle) /\ Len(visited) <= 5
             [] OTHER -> TRUE

C4_Witness ==
    /\ ~modeChanged
    /\ router.analysisMode
    /\ wfaExit.how = "eject"
    /\ visited = AnalysisEjectCycle

(* C5: while analysisMode has been false since the cycle began, the states *)
(* visited are a prefix of Idle, WaitingForPush, Pushing, Lowering, Idle,  *)
(* the riser and ejection outputs are OFF, WaitingForAnalysis was never    *)
(* left (it was never entered), and no step prints the ANALYSIS_START      *)
(* request.                                                                *)
C5_NonAnalysisCycle ==
    (~modeChanged /\ ~router.analysisMode) =>
        /\ state = LastVisited
        /\ IsPrefix(visited, NonAnalysisCycle)
        /\ ~router.riserCylinderState
        /\ ~router.ejectionCylinderState
        /\ wfaExit = NoExit
        /\ Count(RequestAnalysisStart, serialTx) = 0

C5_Witness ==
    /\ ~modeChanged
    /\ ~router.analysisMode
    /\ visited = NonAnalysisCycle

(* C6: a step that reads ABORT_ANALYSIS in a state other than              *)
(* WaitingForAnalysis changes no field of the router, leaves currentStatus *)
(* alone and prints nothing; in WaitingForAnalysis it moves to Lowering    *)
(* with all outputs OFF and stateStartTime = the clock.                    *)
C6_AbortOnlyWhileWaiting ==
    [][ ReadsAbort =>
          IF state # WAITING_FOR_ANALYSIS
          THEN router' = router /\ currentStatus' = currentStatus /\ serialTx' = <<>>
          ELSE /\ state' = LOWERING
               /\ Outputs(router') = AllOff
               /\ router'.stateStartTime = clock'
               /\ currentStatus' = currentStatus
      ]_vars

C6_Witness ==
    /\ pc = "router"
    /\ input = AbortLine
    /\ state = RAISING
    /\ router.riserCylinderState

C6_WitnessWaiting ==
    /\ pc = "router"
    /\ input = AbortLine
    /\ state = LOWERING
    /\ wfaExit.how = "abort"

(* C7: a step prints SLAVE_REQUEST ANALYSIS_START once if it enters        *)
(* WaitingForAnalysis and not at all otherwise; WaitingForAnalysis is      *)
(* entered only by the router tick, from Raising, and at most once per     *)
(* cycle.                                                                  *)
C7_RequestOncePerEntry ==
    [][ /\ Count(RequestAnalysisStart, serialTx') =
              IF state # WAITING_FOR_ANALYSIS /\ state' = WAITING_FOR_ANALYSIS
              THEN 1 ELSE 0
        /\ (state # WAITING_FOR_ANALYSIS /\ state' = WAITING_FOR_ANALYSIS)
              => (RouterTick /\ state = RAISING)
        /\ Count(WAITING_FOR_ANALYSIS, visited') <= 1
      ]_vars

C7_Witness ==
    /\ pc = "serial"
    /\ state = WAITING_FOR_ANALYSIS
    /\ Count(RequestAnalysisStart, serialTx) = 1

(* C8: every step that changes the router state prints a STATE line, and   *)
(* the last STATE line it prints names the new state (so that the host's   *)
(* mirror equals the router's state when the step is over).                *)
LastStateLine(seq) ==
    LET L == StateLines(seq) IN seq[CHOOSE i \in L : \A j \in L : j <= i]

C8_EveryTransitionNotified ==
    [][ state' # state =>
          /\ StateLines(serialTx') # {}
          /\ LastStateLine(serialTx').router_state = state'
      ]_vars

(* what holds instead: on the two paths through abortAnalysis (the abort   *)
(* command and the timeout) the last STATE line of the step is the one     *)
(* deactivateRiserCylinder prints, before the state is changed; every      *)
(* other transition is notified with the new state                         *)
C8_OnlyAbortPathsUnnotified ==
    [][ state' # state =>
          /\ StateLines(serialTx') # {}
          /\ IF state = WAITING_FOR_ANALYSIS /\ wfaExit'.how \in {"abort", "timeout"}
             THEN /\ LastStateLine(serialTx').router_state = WAITING_FOR_ANALYSIS
                  /\ LastStateLine(serialTx').riser_cylinder = "OFF"
                  /\ state' = LOWERING
             ELSE LastStateLine(serialTx').router_state = state'
      ]_vars

(* C9 as stated: a timed state is left by the router tick exactly when the *)
(* elapsed time reaches the duration that was in force when the state was  *)
(* entered (and, for Pushing, the sensor is clear).                        *)
TimedOut(dur) == clock >= router.stateStartTime + dur

C9_DeadlineFixedAtEntry ==
    [][ /\ (RouterTick /\ state = PUSHING)
            => ((state' # PUSHING) <=> (~sensor1 /\ TimedOut(entryDuration)))
        /\ (RouterTick /\ state = RAISING)
            => ((state' # RAISING) <=> TimedOut(entryDuration))
        /\ (RouterTick /\ state = EJECTING)
            => ((state' # EJECTING) <=> TimedOut(entryDuration))
      ]_vars

(* C9 amended: the duration is read at every tick.  A timed state is left  *)
(* by the router tick exactly when the elapsed time since the state was    *)
(* entered reaches the value of the setting at that tick (and, for         *)
(* Pushing, the sensor is clear); a SETTINGS line changes neither the      *)
(* state nor stateStartTime nor an output, and no serial step leaves a     *)
(* timed state.                                                            *)
C9_DurationReadAtEachTick ==
    [][ /\ (RouterTick /\ state = PUSHING)
            => ((state' # PUSHING) <=> (~sensor1 /\ TimedOut(router.pushTime)))
        /\ (RouterTick /\ state = RAISING)
            => ((state' # RAISING) <=> TimedOut(router.riserTime))
        /\ (RouterTick /\ state = EJECTING)
            => ((state' # EJECTING) <=> TimedOut(router.ejectionTime))
        /\ (pc = "serial" /\ input'.cmd = "SETTINGS")
            => Frame(router') = Frame(router)
        /\ (pc = "serial" /\ state \in {PUSHING, RAISING, EJECTING})
            => Frame(router') = Frame(router)
      ]_vars

(* a setting was changed while the timed state that uses it was running,   *)
(* and the state has just been left before the deadline taken at entry     *)
C9_Witness ==
    /\ pc = "serial"
    /\ state = RAISING
    /\ router.stateStartTime = clock
    /\ visited = <<IDLE, WAITING_FOR_PUSH, PUSHING, RAISING>>
    /\ router.pushTime = AltPushTime
    /\ clock < SENSOR_DELAY_TIME + DEFAULT_PUSH_TIME

(* C10: in Idle, a step other than a router tick that reads the sensor     *)
(* active leaves the state Idle, the outputs OFF and stateStartTime as it  *)
(* was, whatever the clock and whatever line is read.                      *)
C10_IdleStaysIdle ==
    [][ (state = IDLE /\ ~(RouterTick /\ sensor1))
          => /\ state' = IDLE
             /\ Outputs(router') = AllOff
             /\ router'.stateStartTime = router.stateStartTime
      ]_vars

C10_Witness ==
    /\ pc = "serial"
    /\ state = IDLE
    /\ ~sensor1
    /\ Len(visited) > 1
    /\ clock >= router.stateStartTime + ANALYSIS_TIMEOUT + CYCLE_DELAY
(* ---------------- the timed scenario ---------------- *)
T_Push == SENSOR_DELAY_TIME
T_Raise == T_Push + DEFAULT_PUSH_TIME
T_Wait == T_Raise + DEFAULT_RISER_TIME
T_Eject == VerdictAt
T_Lower == T_Eject + DEFAULT_EJECTION_TIME
T_Idle == T_Lower + CYCLE_DELAY

ScnStateAt(t) ==
    IF t < T_Push THEN WAITING_FOR_PUSH
    ELSE IF t < T_Raise THEN PUSHING
    ELSE IF t < T_Wait THEN RAISING
    ELSE IF t < T_Eject THEN WAITING_FOR_ANALYSIS
    ELSE IF t < T_Lower THEN EJECTING
    ELSE IF t < T_Idle THEN LOWERING
    ELSE IDLE

ScnOutputs(st) ==
    CASE st = PUSHING -> <<TRUE, FALSE, FALSE>>
      [] st \in {RAISING, WAITING_FOR_ANALYSIS} -> <<FALSE, TRUE, FALSE>>
      [] st = EJECTING -> <<FALSE, TRUE, TRUE>>
      [] OTHER -> AllOff

(* C11: in the scenario (defaults, one iteration per millisecond, sensor   *)
(* active from 0 to 500, ANALYSIS_RESULT TRUE read at 6500) the state when *)
(* the iteration of time t is over is WaitingForPush for t < 300, Pushing  *)
(* for t < 3300, Raising for t < 6300, WaitingForAnalysis for t < 6500,    *)
(* Ejecting for t < 7500, Lowering for t < 8500 and Idle from 8500 on, so  *)
(* the transitions happen at 0, 300, 3300, 6300, 6500, 7500, 8500 and at   *)
(* no other time; the outputs are push ON in Pushing, riser ON in Raising  *)
(* and WaitingForAnalysis, riser and ejection ON in Ejecting, all OFF      *)
(* elsewhere; the request line is printed once, by the tick of 6300; and   *)
(* the one transition made by a serial step is the one to Ejecting.        *)
C11_ScenarioTimes ==
    [][ /\ (pc' = "serial") =>
               /\ state' = ScnStateAt(clock')
               /\ Outputs(router') = ScnOutputs(state')
        /\ Count(RequestAnalysisStart, serialTx') =
               IF RouterTick /\ clock = T_Wait THEN 1 ELSE 0
        /\ (pc = "serial" /\ state' # state) =>
               (clock' = T_Eject /\ state' = EJECTING /\ router'.ejectionCylinderState)
      ]_vars

C11_Witness ==
    /\ pc = "serial"
    /\ clock = T_Idle
    /\ state = IDLE
    /\ visited = AnalysisEjectCycle
    /\ wfaExit = [how |-> "eject", expired |-> FALSE]

(* C12: whenever the state is Lowering or Idle the three outputs are OFF,  *)
(* on every path into Lowering (from Pushing in non-analysis mode, from    *)
(* Raising after analysisMode was switched off, from WaitingForAnalysis by *)
(* a pass verdict, the timeout or an abort, from Ejecting), whatever the   *)
(* host does to analysisMode and the durations meanwhile.                  *)
IntoLowering ==
    {<<IDLE, WAITING_FOR_PUSH, PUSHING, LOWERING>>,
     <<IDLE, WAITING_FOR_PUSH, PUSHING, RAISING, LOWERING>>,
     <<IDLE, WAITING_FOR_PUSH, PUSHING, RAISING, WAITING_FOR_ANALYSIS, LOWERING>>,
     <<IDLE, WAITING_FOR_PUSH, PUSHING, RAISING, WAITING_FOR_ANALYSIS, EJECTING,
       LOWERING>>}

C12_LoweredOutputsOff ==
    /\ (state \in {LOWERING, IDLE}) => Outputs(router) = AllOff
    /\ (state = LOWERING) => visited \in IntoLowering

(* Lowering reached from Raising, the mode having been switched off and a  *)
(* duration changed during the cycle                                       *)
C12_Witness ==
    /\ pc = "serial"
    /\ state = LOWERING
    /\ visited = <<IDLE, WAITING_FOR_PUSH, PUSHING, RAISING, LOWERING>>
    /\ router.riserTime = AltRiserTime
    /\ ~router.analysisMode
    /\ Outputs(router) = AllOff

(* C13: Pushing is left only by a router tick at which the sensor reads    *)
(* inactive and at least pushTime has passed since Pushing was entered; a  *)
(* router tick at which the sensor reads active, or at which less than     *)
(* pushTime has passed, leaves the state Pushing, push ON and              *)
(* stateStartTime as it was, however long Pushing has lasted already.      *)
SincePushing == clock - enteredAt

C13_PushingGuard ==
    [][ /\ (state = PUSHING /\ state' # PUSHING)
            => (RouterTick /\ ~sensor1 /\ SincePushing >= router.pushTime)
        /\ (state = PUSHING /\ RouterTick
                /\ (sensor1 \/ SincePushing < router.pushTime))
            => /\ state' = PUSHING
               /\ router'.pushCylinderState
               /\ router'.stateStartTime = router.stateStartTime
        /\ (state = PUSHING) => router.pushCylinderState
      ]_vars

(* still Pushing, the sensor active, long after pushTime has passed *)
C13_Witness ==
    /\ pc = "serial"
    /\ state = PUSHING
    /\ sensor1
    /\ router.pushCylinderState
    /\ SincePushing >= router.pushTime + ANALYSIS_TIMEOUT

(* C14: startCycle runs exactly on the router ticks at which the state is  *)
(* Idle and the sensor reads active: only there is WaitingForPush entered  *)
(* and cycleStartTime written (both times are the clock of the tick); in   *)
(* any other state no sensor level or edge enters WaitingForPush, so a     *)
(* cycle has one WaitingForPush; and WaitingForPush goes to Pushing, push  *)
(* ON, at the first router tick with SENSOR_DELAY_TIME elapsed, whatever   *)
(* the sensor reads then, and is otherwise left alone.                     *)
StartsCycle == RouterTick /\ state = IDLE /\ sensor1

C14_CycleStartsOnlyInIdle ==
    [][ /\ StartsCycle
            => /\ state' = WAITING_FOR_PUSH
               /\ router'.cycleStartTime = clock
               /\ router'.stateStartTime = clock
        /\ ~StartsCycle
            => /\ router'.cycleStartTime = router.cycleStartTime
               /\ (state' = WAITING_FOR_PUSH) => (state = WAITING_FOR_PUSH)
        /\ (state = WAITING_FOR_PUSH)
            => IF RouterTick /\ clock - enteredAt >= SENSOR_DELAY_TIME
               THEN /\ state' = PUSHING
                    /\ router'.pushCylinderState
                    /\ router'.stateStartTime = clock
               ELSE Frame(router') = Frame(router)
        /\ Count(WAITING_FOR_PUSH, visited') <= 1
      ]_vars

(* a rising edge of the sensor seen by a router tick in Raising (the tick   *)
(* printed the STATE line of the edge and made no transition): the cycle   *)
(* did not restart                                                         *)
C14_Witness ==
    /\ pc = "serial"
    /\ state = RAISING
    /\ sensor1
    /\ router.lastSensor1State
    /\ visited = <<IDLE, WAITING_FOR_PUSH, PUSHING, RAISING>>
    /\ router.stateStartTime < clock
    /\ Cardinality(StateLines(serialTx)) = 1

(* C15: no step enters Error from another state (so, started as            *)
(* constructed, the router is never in Error), and with the router in      *)
(* Error no step (router tick, verdict, abort, settings, whatever the      *)
(* sensor reads and however much time passes) changes the state, an output *)
(* or stateStartTime.                                                      *)
C15_ErrorInert ==
    [][ /\ (state # ERROR) => (state' # ERROR)
        /\ (state = ERROR)
            => /\ state' = ERROR
               /\ Outputs(router') = Outputs(router)
               /\ router'.stateStartTime = router.stateStartTime
      ]_vars

(* placed in Error with the riser ON: still so after the analysis timeout  *)
(* has passed, the sensor active, and a verdict just read                  *)
C15_Witness ==
    /\ pc = "router"
    /\ state = ERROR
    /\ input = ResultLine("TRUE")
    /\ serialTx = <<DebugIgnoring>>
    /\ sensor1
    /\ router.riserCylinderState
    /\ clock > ANALYSIS_TIMEOUT

(* C16: in each of the six timed states stateStartTime is the clock of the *)
(* step that entered that state, so every guard of updateState measures    *)
(* the time spent in the current state; this on every path, the ones       *)
(* through a verdict, an abort and the timeout included.                   *)
TimedStates ==
    {WAITING_FOR_PUSH, PUSHING, RAISING, WAITING_FOR_ANALYSIS, EJECTING, LOWERING}

C16_StartTimeOfCurrentState ==
    (state \in TimedStates) => router.stateStartTime = enteredAt

(* Lowering entered by an abort, the guard of Lowering about to be         *)
(* evaluated at a later clock                                              *)
C16_Witness ==
    /\ pc = "router"
    /\ state = LOWERING
    /\ wfaExit.how = "abort"
    /\ input = NoLine
    /\ router.stateStartTime = enteredAt
    /\ clock > enteredAt

(* C17: the outputs are a function of the state: push is ON exactly in     *)
(* Pushing, the riser exactly in Raising, WaitingForAnalysis and Ejecting, *)
(* the ejection exactly in Ejecting; so push and riser are never ON        *)
(* together.                                                               *)
C17_OutputsFollowState ==
    /\ router.pushCylinderState = (state = PUSHING)
    /\ router.riserCylinderState = (state \in {RAISING, WAITING_FOR_ANALYSIS, EJECTING})
    /\ router.ejectionCylinderState = (state = EJECTING)
    /\ ~(router.pushCylinderState /\ router.riserCylinderState)

C17_Witness ==
    /\ pc = "serial"
    /\ state = EJECTING
    /\ Outputs(router) = <<FALSE, TRUE, TRUE>>
    /\ modeChanged
    /\ router.ejectionTime = AltEjectionTime
    /\ clock > enteredAt

(* C18: the ejection output goes ON, and Ejecting is entered, only in a    *)
(* step that reads ANALYSIS_RESULT TRUE while the state is                 *)
(* WaitingForAnalysis (both happen in that step); a cycle whose wait was   *)
(* ended by the timeout, an abort or a pass verdict has the ejection OFF   *)
(* and never visits Ejecting, whatever verdict is stored from an earlier   *)
(* cycle.                                                                  *)
EjectionStarts ==
    \/ state # EJECTING /\ state' = EJECTING
    \/ ~router.ejectionCylinderState /\ router'.ejectionCylinderState

C18_EjectOnlyByVerdict ==
    [][ /\ EjectionStarts
            => /\ ReadsResult
               /\ input'.arg = "TRUE"
               /\ state = WAITING_FOR_ANALYSIS
               /\ state' = EJECTING
               /\ router'.ejectionCylinderState
        /\ (wfaExit'.how \in {"timeout", "abort", "pass"})
            => /\ ~router'.ejectionCylinderState
               /\ Count(EJECTING, visited') = 0
      ]_vars

(* second cycle: the verdict TRUE of the first cycle is still stored, the  *)
(* wait was ended by an abort, no ejection                                 *)
C18_Witness ==
    /\ state = LOWERING
    /\ wfaExit.how = "abort"
    /\ router.shouldEject
    /\ ~router.ejectionCylinderState
    /\ Count(EJECTING, visited) = 0

(* C19 as stated: once the sensor has read inactive at a tick in Pushing   *)
(* the cycle returns to Idle; and a machine that does not return to Idle   *)
(* stays in Pushing with the sensor active from some point on.             *)
C19_SensorClearSuffices ==
    /\ [](((state = PUSHING /\ pc = "router" /\ ~sensor1)) => <>(state = IDLE))
    /\ \/ (state # IDLE) ~> (state = IDLE)
       \/ <>[](state = PUSHING /\ sensor1)

(* C19 amended: with loop() called for ever and the clock advancing,       *)
(* either every cycle that starts returns to Idle, whatever the host sends *)
(* or fails to send, or the machine stays in Pushing for ever and from     *)
(* some point on no router tick finds the sensor inactive with pushTime    *)
(* elapsed (the elapsed time being the 32-bit difference the guard         *)
(* computes).  So Pushing is the only state other than Idle the machine    *)
(* can stay in for ever; a sensor that reads inactive before pushTime has  *)
(* elapsed does not end the push.                                          *)
PushCanEnd ==
    /\ pc = "router"
    /\ state = PUSHING
    /\ ~sensor1
    /\ GEu(Elapsed(clock, router.stateStartTime), router.pushTime)

C19_CycleReturnsToIdle ==
    \/ (state # IDLE) ~> (state = IDLE)
    \/ <>[](state = PUSHING /\ ~PushCanEnd)

(* a cycle that went through the wait and was never answered is over *)
C19_Witness ==
    /\ state = IDLE
    /\ visited = AnalysisPassCycle
    /\ wfaExit.how = "timeout"
    /\ ~router.analysisComplete

(* C20: in a timed state stateStartTime is the clock of the entry, which   *)
(* is not later than the clock of any tick in the state, so the unsigned   *)
(* 32-bit difference the guard computes is the time spent in the state     *)
(* (no underflow), also when the clock has wrapped since the entry; and a  *)
(* router tick leaves a timed state only when that time has reached the    *)
(* duration of the state.                                                  *)
DurationOf(st) ==
    CASE st = WAITING_FOR_PUSH -> SENSOR_DELAY_TIME
      [] st = PUSHING -> router.pushTime
      [] st = RAISING -> router.riserTime
      [] st = WAITING_FOR_ANALYSIS -> ANALYSIS_TIMEOUT
      [] st = EJECTING -> router.ejectionTime
      [] st = LOWERING -> CYCLE_DELAY

TimeInState == clock - enteredAt

C20_ElapsedNeverUnderflows ==
    [][ /\ (state \in TimedStates)
            => /\ router.stateStartTime = enteredAt
               /\ TimeInState >= 0
               /\ Elapsed(clock, router.stateStartTime) = TimeInState
        /\ (RouterTick /\ state \in TimedStates /\ state' # state)
            => TimeInState >= DurationOf(state)
        /\ (RouterTick /\ state \in TimedStates /\ state' = state)
            => (TimeInState < DurationOf(state) \/ (state = PUSHING /\ sensor1))
      ]_vars

(* the wait began before the wrap and was ended by the timeout after it *)
C20_Witness ==
    /\ state = LOWERING
    /\ wfaExit = [how |-> "timeout", expired |-> TRUE]
    /\ enteredAt >= 0
    /\ enteredAt - ANALYSIS_TIMEOUT < 0
====
